---- MODULE Spec2Model ----
(***************************************************************************)
(* Track-changes CRDT (TrackChanges + CAnnotationLog) on two replicas.     *)
(*                                                                         *)
(* Positions are natural numbers; the variable order is the abstract total *)
(* order shared by the text list and by every LocalList built on it.       *)
(* NULL (0) stands for a null position.  Every public operation is one     *)
(* transaction: its messages carry the same lamport and senderID and are   *)
(* delivered to the other replica in sender order (causal delivery).       *)
(***************************************************************************)
EXTENDS Integers, Sequences, FiniteSets, TLC

Replicas == {1, 2}

\* Bounds of the model.
MaxOps == 4
MaxReviewOps == 3
MaxCommentOps == 4
MaxCallOps == 3
MaxLoadOps == 4
MaxLamport == 3
MaxIns == 1
MaxPos == 3
MaxSeed == 3
MaxStrayOps == 3
MaxStaleOps == 4
MaxEarlyOps == 4
MaxEdgeOps == 3
MaxDirectIns == 2

NULL == 0

\* The id of an annotation that none of the modelled replicas created.
UnknownId == NULL - 1

VARIABLES order, txns, applied, clock, known, present, log, annotationList,
          nextId, emitted, lastOp, fault, insertedUnder, budget

vars == <<order, txns, applied, clock, known, present, log, annotationList,
          nextId, emitted, lastOp, fault, insertedUnder, budget>>

EmptyFn == [x \in {} |-> 0]

Max(a, b) == IF a >= b THEN a ELSE b

(***************************************************************************)
(* The position service: a list is the subsequence of order whose members  *)
(* are in a set S (the present characters, or the keys of a LocalList).    *)
(***************************************************************************)
Ord(o, p) == CHOOSE i \in 1..Len(o) : o[i] = p

ListOf(o, S) == SelectSeq(o, LAMBDA p : p \in S)

Before(o, S, p) == Cardinality({q \in S : Ord(o, q) < Ord(o, p)})

IndexOfPosition(o, S, p, searchDir) ==
  IF p \in S THEN Before(o, S, p)
  ELSE IF searchDir = "left" THEN Before(o, S, p) - 1
  ELSE IF searchDir = "right" THEN Before(o, S, p)
  ELSE -1

HasIndex(S, i) == i >= 0 /\ i < Cardinality(S)

GetPosition(o, S, i) == ListOf(o, S)[i + 1]

(***************************************************************************)
(* Annotation records (AdditionAnnotation, RemovalAnnotation,              *)
(* UpdateAnnotation) in one shape.  For an Update, hasStart / hasEnd say   *)
(* which of startPosition / endPosition updatedProperties contains.        *)
(***************************************************************************)
Addition(id, type, description, userId, sp, sc, ep, ec, value) ==
  [id |-> id, type |-> type, action |-> "addition", description |-> description,
   userId |-> userId, lamport |-> 0, senderID |-> 0, dependentOn |-> 0,
   startPosition |-> sp, startClosed |-> sc, endPosition |-> ep,
   endClosed |-> ec, value |-> value, hasStart |-> FALSE, hasEnd |-> FALSE]

Removal(id, type, description, userId, dependentOn) ==
  [id |-> id, type |-> type, action |-> "removal", description |-> description,
   userId |-> userId, lamport |-> 0, senderID |-> 0, dependentOn |-> dependentOn,
   startPosition |-> NULL, startClosed |-> FALSE, endPosition |-> NULL,
   endClosed |-> FALSE, value |-> 0, hasStart |-> FALSE, hasEnd |-> FALSE]

Update(id, userId, dependentOn, hasStart, sp, hasEnd, ep) ==
  [id |-> id, type |-> "suggestion", action |-> "update", description |-> "none",
   userId |-> userId, lamport |-> 0, senderID |-> 0, dependentOn |-> dependentOn,
   startPosition |-> sp, startClosed |-> FALSE, endPosition |-> ep,
   endClosed |-> FALSE, value |-> 0, hasStart |-> hasStart, hasEnd |-> hasEnd]

\* The key of the log a record is filed under (receiveCRDT's id).
ChangeId(a) == IF a.action = "addition" THEN a.id ELSE a.dependentOn

LogGet(lg, id) == IF id \in DOMAIN lg THEN lg[id] ELSE <<>>

\* The comparator of receiveCRDT's sort.
SortsAfter(a, b) ==
  \/ a.lamport > b.lamport
  \/ a.lamport = b.lamport /\ a.senderID > b.senderID

\* Mutation: the new record is appended and the history is not sorted.
SortInsertLast(existing, a) == Append(existing, a)

\* [...existing, annotation].sort(...): a stable sort of a sorted list plus
\* one element puts the element after every record that does not sort after it.
SortInsert(existing, a) ==
  LET k == Cardinality({i \in 1..Len(existing) : ~SortsAfter(existing[i], a)})
  IN  SubSeq(existing, 1, k) \o <<a>> \o SubSeq(existing, k + 1, Len(existing))

\* Mutation: the senderID tiebreaker is strict.
winsStrictly(a, b) ==
  \/ a.lamport > b.lamport
  \/ a.lamport = b.lamport /\ a.senderID > b.senderID

wins(a, b) ==
  \/ a.lamport > b.lamport
  \/ a.lamport = b.lamport /\ a.senderID >= b.senderID

\* Mutation: the Updates are applied from the last to the first, so that
\* the first Update that sets a property gives its value.
RECURSIVE applyUpdateOperationsReversed(_, _)
applyUpdateOperationsReversed(annotation, updates) ==
  IF updates = <<>> THEN annotation
  ELSE LET u == updates[Len(updates)]
           next == IF u.action = "update" /\ u.dependentOn = annotation.id
                   THEN [annotation EXCEPT
                           !.startPosition = IF u.hasStart THEN u.startPosition ELSE @,
                           !.endPosition = IF u.hasEnd THEN u.endPosition ELSE @]
                   ELSE annotation
       IN  applyUpdateOperationsReversed(next, SubSeq(updates, 1, Len(updates) - 1))

RECURSIVE applyUpdateOperations(_, _)
applyUpdateOperations(annotation, updates) ==
  IF updates = <<>> THEN annotation
  ELSE LET u == Head(updates)
           next == IF u.action = "update" /\ u.dependentOn = annotation.id
                   THEN [annotation EXCEPT
                           !.startPosition = IF u.hasStart THEN u.startPosition ELSE @,
                           !.endPosition = IF u.hasEnd THEN u.endPosition ELSE @]
                   ELSE annotation
       IN  applyUpdateOperations(next, Tail(updates))

(***************************************************************************)
(* The state of one replica while a handler runs (st): the total order,    *)
(* the text (known and present positions), the annotation log, the local   *)
(* view (al, the annotationList: position -> data point), the events       *)
(* emitted and the messages sent so far, the next fresh record id (nid),   *)
(* and whether an exception was thrown.                                    *)
(***************************************************************************)
EmptyDataPoint == [comment |-> <<>>, suggestion |-> <<>>]

Flat(data) == data.comment \o data.suggestion

Entry(annotation, isEnd, isStart) ==
  [a |-> annotation, endingHere |-> isEnd, startingHere |-> isStart]

Emit(st, e) == [st EXCEPT !.events = Append(@, e)]

\* An exception thrown by a public operation itself (Throw) skips the rest
\* of the operation.  An exception thrown inside the Add handler (Fail)
\* skips the rest of the handler only: the emitter of the event catches and
\* logs it (onAnnotationLogAdd), and failed records that it happened.
Throw(st) == [st EXCEPT !.threw = TRUE]

Fail(st) == [st EXCEPT !.threw = TRUE, !.failed = TRUE]

createDataPoint(o, al, position) ==
  LET keep(s) == SelectSeq(s, LAMBDA e : ~e.endingHere)
      copy(s) == [i \in 1..Len(s) |-> [s[i] EXCEPT !.endingHere = FALSE]]
      from(prev) == al @@ (position :> [comment |-> copy(keep(prev.comment)),
                                        suggestion |-> copy(keep(prev.suggestion))])
      at(prevIndex) ==
        IF prevIndex = -1 THEN al @@ (position :> EmptyDataPoint)
        ELSE from(al[GetPosition(o, DOMAIN al, prevIndex)])
  IN  IF position \in DOMAIN al THEN al
      ELSE at(IndexOfPosition(o, DOMAIN al, position, "left"))

AnnotationEvent(st, name, annotation, reason, author) ==
  [ev |-> name,
   startIndex |-> IF annotation.startPosition # NULL
                  THEN IndexOfPosition(st.order, st.present, annotation.startPosition, "left")
                  ELSE 0,
   endIndex |-> IF annotation.endPosition # NULL
                THEN IndexOfPosition(st.order, st.present, annotation.endPosition, "right")
                ELSE Cardinality(st.present),
   reason |-> reason, annotation |-> annotation, author |-> author]

\* A null startIndex / endIndex is written -2.
addAnnotation(st, annotation) ==
  LET fill(al, keys, startIndex, endIndex) ==
        [p \in keys |->
           LET i == Before(st.order, keys, p)
           IN  IF /\ i >= (IF startIndex = -2 THEN 0 ELSE startIndex)
                  /\ i <= (IF endIndex # -2 THEN endIndex ELSE Cardinality(keys) - 1)
               THEN [al[p] EXCEPT ![annotation.type] =
                       Append(@, Entry(annotation, i = endIndex, i = startIndex))]
               ELSE al[p]]
      loop(al) ==
        fill(al, DOMAIN al,
             IF annotation.startPosition = NULL THEN -2
             ELSE IndexOfPosition(st.order, DOMAIN al, annotation.startPosition, "none"),
             IF annotation.endPosition = NULL THEN -2
             ELSE IndexOfPosition(st.order, DOMAIN al, annotation.endPosition, "none"))
      atEnd(al) == IF annotation.endPosition # NULL
                   THEN createDataPoint(st.order, al, annotation.endPosition) ELSE al
      atStart == createDataPoint(st.order, st.al,
                   IF annotation.startPosition # NULL THEN annotation.startPosition
                   ELSE GetPosition(st.order, st.present, 0))
  IN  IF annotation.startPosition = NULL /\ st.present = {} THEN Fail(st)
      ELSE Emit([st EXCEPT !.al = loop(atEnd(atStart))],
                AnnotationEvent(st, "AnnotationAdded", annotation, "none",
                                annotation.userId))

removeAnnotation(st, annotation, reason, author) ==
  LET clear(keys, startIndex, endIndex) ==
        [p \in keys |->
           LET i == Before(st.order, keys, p)
           IN  IF /\ i >= (IF startIndex = -2 THEN 0 ELSE startIndex)
                  /\ i <= (IF endIndex # -2 THEN endIndex ELSE Cardinality(keys) - 1)
               THEN [st.al[p] EXCEPT ![annotation.type] =
                       SelectSeq(@, LAMBDA s : s.a.id # annotation.id)]
               ELSE st.al[p]]
      loop(startIndex) ==
        IF startIndex = -1 THEN Fail(st)
        ELSE Emit([st EXCEPT !.al =
                     clear(DOMAIN st.al, startIndex,
                           IF annotation.endPosition = NULL THEN -2
                           ELSE IndexOfPosition(st.order, DOMAIN st.al,
                                                annotation.endPosition, "none"))],
                  AnnotationEvent(st, "AnnotationRemoved", annotation, reason, author))
  IN  loop(IF annotation.startPosition = NULL THEN -2
           ELSE IndexOfPosition(st.order, DOMAIN st.al, annotation.startPosition, "left"))

getAnnotationsInternal(st, position) ==
  LET ok(s, dataPos) ==
        \/ dataPos # position /\ ~s.endingHere
        \/ ~s.endingHere /\ ~s.startingHere
        \/ dataPos = position /\ s.startingHere /\ s.a.startClosed /\ ~s.endingHere
        \/ s.endingHere /\ s.a.endClosed /\ dataPos = position
      strip(sel) == [i \in 1..Len(sel) |-> sel[i].a]
      filter(dataPos) ==
        strip(SelectSeq(Flat(st.al[dataPos]), LAMBDA s : ok(s, dataPos)))
      find(index, dataIndex) ==
        IF dataIndex = -1 \/ (index = 0 /\ dataIndex = Cardinality(DOMAIN st.al))
        THEN <<>>
        ELSE IF ~HasIndex(DOMAIN st.al, dataIndex) THEN <<>>
        ELSE filter(GetPosition(st.order, DOMAIN st.al, dataIndex))
      search(index) ==
        find(index, IndexOfPosition(st.order, DOMAIN st.al, position,
                                    IF index = 0 THEN "right" ELSE "left"))
  IN  search(IndexOfPosition(st.order, st.present, position, "left"))

(***************************************************************************)
(* TrackChanges.processAnnotation: the handler of the log's Add event.     *)
(* It runs after receiveCRDT has filed the record, so the history it reads *)
(* already contains the record.                                            *)
(***************************************************************************)
RemovalReason(annotation) ==
  IF annotation.description = "declineSuggestion" THEN "declined"
  ELSE IF annotation.description = "acceptSuggestion" THEN "accepted"
  ELSE "removed"

FindAddition(existing, id) ==
  SelectSeq(existing, LAMBDA a : a.id = id)

\* Mutation: a Removal or Update without its Addition is not dropped but
\* reported as the removal of an annotation.
processAnnotationKeepsOrphans(st, annotation) ==
  IF /\ annotation.action # "addition"
     /\ FindAddition(LogGet(st.log, ChangeId(annotation)),
                     annotation.dependentOn) = <<>>
  THEN Emit(st, AnnotationEvent(st, "AnnotationRemoved", annotation,
                                RemovalReason(annotation), annotation.userId))
  ELSE st

processAnnotation(st, annotation) ==
  LET existing == LogGet(st.log, ChangeId(annotation))
      lastAction == existing[Len(existing)].action
  IN
  IF annotation.action = "removal" THEN
    IF existing = <<>> THEN st
    ELSE IF lastAction # "removal" THEN st
    ELSE IF FindAddition(existing, annotation.dependentOn) = <<>> THEN st
    ELSE removeAnnotation(st,
           applyUpdateOperations(
             Head(FindAddition(existing, annotation.dependentOn)), existing),
           RemovalReason(annotation), annotation.userId)
  ELSE IF annotation.action = "update" THEN
    IF existing = <<>> THEN st
    ELSE IF lastAction = "removal" THEN st
    ELSE IF FindAddition(existing, annotation.dependentOn) = <<>> THEN st
    ELSE LET additionAnnotation ==
               Head(FindAddition(existing, annotation.dependentOn))
             updatedAnnotation ==
               applyUpdateOperations(additionAnnotation, existing)
             relevantUpdates ==
               SelectSeq(existing, LAMBDA a : a.id # annotation.id)
             existingAnnotation ==
               applyUpdateOperations(additionAnnotation, relevantUpdates)
             st1 == removeAnnotation(st, existingAnnotation, "replaced",
                                     existingAnnotation.userId)
         IN  IF st1.threw THEN st1 ELSE addAnnotation(st1, updatedAnnotation)
  ELSE
    IF existing = <<>> THEN st
    ELSE IF lastAction = "removal" THEN st
    ELSE addAnnotation(st, applyUpdateOperations(annotation, existing))

\* The handler registered for the log's Add event; what it throws does not
\* reach the code that emitted the event.
onAnnotationLogAdd(st, annotation) ==
  [processAnnotation(st, annotation) EXCEPT !.threw = FALSE]

(***************************************************************************)
(* CAnnotationLog.receiveCRDT: file the record under its change id, keep   *)
(* the history sorted by (lamport, senderID), then emit Add.               *)
(***************************************************************************)
receiveCRDT(st, annotation) ==
  LET id == ChangeId(annotation)
      lg == [k \in DOMAIN st.log \cup {id} |->
               IF k = id THEN SortInsert(LogGet(st.log, id), annotation)
               ELSE st.log[k]]
  IN  onAnnotationLogAdd([st EXCEPT !.log = lg], annotation)

\* CAnnotationLog.add on replica r inside the transaction with lamport lam:
\* the record gets a fresh id, is sent, and is delivered locally at once.
annotationLogAdd(st, r, lam, partial) ==
  LET annotation == [partial EXCEPT !.id = st.nid, !.lamport = lam, !.senderID = r]
      st1 == [st EXCEPT !.nid = @ + 1,
                        !.msgs = Append(@, [kind |-> "annotation", positions |-> {},
                                            annotation |-> annotation])]
  IN  receiveCRDT(st1, annotation)

(***************************************************************************)
(* CAnnotationLog.saveCRDT / loadCRDT.  The saved state lists the change   *)
(* ids in the order of the log's map (changeIds) and, for each, its        *)
(* history.  A loaded record is appended when its lamport is larger than   *)
(* the lamport of the last record the log held for the change id before    *)
(* the load; its senderID is set to the change id; then Add is emitted.    *)
(* A change id is a UUID: used as a senderID it compares either above or   *)
(* below the replica ids (AsSender).                                       *)
(***************************************************************************)
saveCRDT(lg, changeIds) == [i \in 1..Len(changeIds) |-> lg[changeIds[i]]]

AsSender(changeId, above) ==
  IF above THEN changeId + Cardinality(Replicas) ELSE UnknownId - changeId

RECURSIVE loadHistory(_, _, _, _, _)
loadHistory(st, changeId, annotations, lastLamport, above) ==
  IF annotations = <<>> \/ st.threw THEN st
  ELSE IF Head(annotations).lamport > lastLamport
  THEN LET annotation == [Head(annotations) EXCEPT
                            !.senderID = AsSender(changeId, above)]
           lg == [k \in DOMAIN st.log \cup {changeId} |->
                    IF k = changeId
                    THEN Append(LogGet(st.log, changeId), annotation)
                    ELSE st.log[k]]
       IN  loadHistory(onAnnotationLogAdd([st EXCEPT !.log = lg], annotation),
                       changeId, Tail(annotations), lastLamport, above)
  ELSE loadHistory(st, changeId, Tail(annotations), lastLamport, above)

\* Mutation: loadCRDT without the comparison with the last lamport held.
RECURSIVE loadCRDTFromStart(_, _, _, _)
loadCRDTFromStart(st, changeIds, savedState, above) ==
  IF changeIds = <<>> \/ st.threw THEN st
  ELSE loadCRDTFromStart(loadHistory(st, Head(changeIds), Head(savedState),
                                     -1, above),
                         Tail(changeIds), Tail(savedState), above)

RECURSIVE loadCRDT(_, _, _, _)
loadCRDT(st, changeIds, savedState, above) ==
  IF changeIds = <<>> \/ st.threw THEN st
  ELSE LET byChange == LogGet(st.log, Head(changeIds))
       IN  loadCRDT(loadHistory(st, Head(changeIds), Head(savedState),
                                IF byChange = <<>> THEN -1
                                ELSE byChange[Len(byChange)].lamport,
                                above),
                    Tail(changeIds), Tail(savedState), above)

(***************************************************************************)
(* The text list (CustomCValueList): insert, delete, deleteRange and the   *)
(* Insert / Delete events TrackChanges re-emits.                           *)
(***************************************************************************)
NoAnnotation == Removal(0, "none", "none", 0, 0)

TextMsg(kind, positions) ==
  [kind |-> kind, positions |-> positions, annotation |-> NoAnnotation]

TextEvent(name, index, positions) ==
  [ev |-> name, startIndex |-> index, endIndex |-> index + Cardinality(positions),
   reason |-> "none", annotation |-> NoAnnotation, author |-> 0]

Length(st) == Cardinality(st.present)

textGetPosition(st, index) == GetPosition(st.order, st.present, index)

textIndexOfPosition(st, position, searchDir) ==
  IndexOfPosition(st.order, st.present, position, searchDir)

\* Receipt of an insert message (also the local echo of text.insert).
applyInsert(st, positions) ==
  LET st1 == [st EXCEPT !.known = @ \cup positions, !.present = @ \cup positions]
      first == CHOOSE p \in positions :
                 \A q \in positions : Ord(st.order, p) <= Ord(st.order, q)
  IN  Emit(st1, TextEvent("Insert", textIndexOfPosition(st1, first, "none"), positions))

\* Receipt of a delete message: one Delete event if a character goes away.
applyDelete(st, positions) ==
  LET gone == positions \cap st.present
      first == CHOOSE p \in gone :
                 \A q \in gone : Ord(st.order, p) <= Ord(st.order, q)
  IN  IF gone = {} THEN st
      ELSE Emit([st EXCEPT !.present = @ \ gone],
                TextEvent("Delete", textIndexOfPosition(st, first, "none"), gone))

Send(st, msg) == [st EXCEPT !.msgs = Append(@, msg)]

textInsert(st, positions) == applyInsert(Send(st, TextMsg("insert", positions)), positions)

textDelete(st, index, count) ==
  LET positions == {textGetPosition(st, i) : i \in index..(index + count - 1)}
  IN  applyDelete(Send(st, TextMsg("delete", positions)), positions)

deleteRange(st, startPosition, endPosition) ==
  LET positions == {p \in st.present :
                      /\ Ord(st.order, startPosition) <= Ord(st.order, p)
                      /\ Ord(st.order, p) <= Ord(st.order, endPosition)}
  IN  IF positions = {} THEN st
      ELSE applyDelete(Send(st, TextMsg("delete", positions)), positions)

(***************************************************************************)
(* TrackChanges.insert                                                     *)
(***************************************************************************)
Ids(annotations) == {annotations[i].id : i \in 1..Len(annotations)}

IsInsertOf(s, userId) ==
  s.description = "insertSuggestion" /\ s.userId = userId

RECURSIVE shrinkExisting(_, _, _, _, _, _)
shrinkExisting(st, r, lam, index, n, toShrink) ==
  IF toShrink = <<>> \/ st.threw THEN st
  ELSE LET annotation == Head(toShrink)
           isOnLeftEdge ==
             /\ annotation.startPosition # NULL
             /\ textIndexOfPosition(st, annotation.startPosition, "left") + 1 = index
           isOnRightEdge ==
             /\ annotation.endPosition # NULL
             /\ textIndexOfPosition(st, annotation.endPosition, "right") - 1 = index
           isOnAbsoluteStart == annotation.startPosition = NULL /\ index = 0
           isOnAbsoluteEnd ==
             annotation.endPosition = NULL /\ index = Length(st) - 1
           updatedProperties(hasStart, hasEnd) ==
             Update(0, 0, annotation.id,
                    hasStart,
                    IF hasStart THEN textGetPosition(st, index) ELSE NULL,
                    hasEnd,
                    IF hasEnd THEN textGetPosition(st, index + n - 1) ELSE NULL)
       IN  shrinkExisting(
             annotationLogAdd(st, r, lam,
               updatedProperties(isOnLeftEdge \/ isOnAbsoluteStart,
                                 isOnRightEdge \/ isOnAbsoluteEnd)),
             r, lam, index, n, Tail(toShrink))

insertAlwaysAnnotates(st, r, lam, index, positions, isSuggestion) ==
  annotationLogAdd(textInsert(st, positions), r, lam,
    Addition(0, "suggestion", "insertSuggestion", r, NULL, FALSE, NULL, FALSE, 0))

\* The field under of the result names the suggestions the new characters
\* were inserted under.
insert(st, r, lam, index, positions, isSuggestion) ==
  LET n == Cardinality(positions)
      create(st2, own) ==
        IF st2.threw THEN st2
        ELSE IF isSuggestion /\ own = <<>>
        THEN [annotationLogAdd(st2, r, lam,
                Addition(0, "suggestion", "insertSuggestion", r,
                         IF index - 1 >= 0 THEN textGetPosition(st2, index - 1)
                         ELSE NULL,
                         FALSE,
                         IF index + n = Length(st2) THEN NULL
                         ELSE textGetPosition(st2, index + n),
                         FALSE, 0))
              EXCEPT !.under = {st2.nid}]
        ELSE [st2 EXCEPT !.under = IF isSuggestion THEN Ids(own) ELSE {}]
      shrink(st1, existing) ==
        create(shrinkExisting(st1, r, lam, index, n,
                 SelectSeq(existing, LAMBDA s :
                   \/ isSuggestion /\ s.description = "insertSuggestion"
                        /\ s.userId # r
                   \/ ~isSuggestion /\ s.description = "insertSuggestion")),
               SelectSeq(existing, LAMBDA s : IsInsertOf(s, r)))
      inserted(st1) ==
        shrink(st1, getAnnotationsInternal(st1, textGetPosition(st1, index)))
  IN  inserted(textInsert(st, positions))

(***************************************************************************)
(* TrackChanges.delete and its helpers                                     *)
(***************************************************************************)
isRangeWithinSameInsertion(st, index, count, userId) ==
  LET insertions(position) ==
        SelectSeq(getAnnotationsInternal(st, position),
                  LAMBDA s : IsInsertOf(s, userId))
      same(insertionsAtStart, insertionsAtEnd) ==
        IF insertionsAtStart = <<>> THEN FALSE
        ELSE Ids(insertionsAtEnd) \cap Ids(insertionsAtStart) # {}
  IN  IF count <= 0 THEN FALSE
      ELSE same(insertions(textGetPosition(st, index)),
                insertions(textGetPosition(st, index + count - 1)))

\* The candidates of findDeleteAnnotation; the code returns the first one.
findDeleteAnnotation(st, r, position) ==
  IF position = NULL THEN <<>>
  ELSE SelectSeq(getAnnotationsInternal(st, position),
                 LAMBDA s : s.description = "deleteSuggestion" /\ s.userId = r)

createDeleteAnnotation(st, r, lam, index, count) ==
  LET record(relevantAnnotation, rightGrowing) ==
        IF relevantAnnotation # <<>>
        THEN Update(0, r, Head(relevantAnnotation).id,
                    ~rightGrowing,
                    IF ~rightGrowing THEN textGetPosition(st, index) ELSE NULL,
                    rightGrowing,
                    IF rightGrowing THEN textGetPosition(st, index + count - 1)
                    ELSE NULL)
        ELSE Addition(0, "suggestion", "deleteSuggestion", r,
                      textGetPosition(st, index), TRUE,
                      textGetPosition(st, index + count - 1), TRUE, 0)
      relevant(before, after) ==
        record(IF before # <<>> THEN before ELSE after, before # <<>>)
  IN  annotationLogAdd(st, r, lam,
        relevant(findDeleteAnnotation(st, r,
                   IF index > 0 THEN textGetPosition(st, index - 1) ELSE NULL),
                 findDeleteAnnotation(st, r,
                   IF index + count < Length(st)
                   THEN textGetPosition(st, index + count) ELSE NULL)))

delete(st, r, lam, index, count, isSuggestion) ==
  IF ~isSuggestion \/ isRangeWithinSameInsertion(st, index, count, r)
  THEN textDelete(st, index, count)
  ELSE createDeleteAnnotation(st, r, lam, index, count)

(***************************************************************************)
(* acceptSuggestion, declineSuggestion, addComment, removeComment          *)
(***************************************************************************)
\* history.find(ADDITION) folded with the Updates; <<>> when there is none.
Effective(lg, id) ==
  LET fold(history, found) ==
        IF found = <<>> THEN <<>>
        ELSE <<applyUpdateOperations(Head(found), history)>>
      find(history) ==
        fold(history, SelectSeq(history, LAMBDA s : s.action = "addition"))
  IN  find(LogGet(lg, id))

\* Mutation: acceptSuggestion without the text deletion.
acceptSuggestionKeepsText(st, r, lam, id) ==
  annotationLogAdd(st, r, lam, Removal(0, "suggestion", "acceptSuggestion", r, id))

\* Mutation: acceptSuggestion without the test of the description, so that
\* the range of an InsertSuggestion is deleted as well.
acceptSuggestionAnyKind(st, r, lam, id) ==
  LET range(st1, e) ==
        IF (e.startPosition = NULL \/ e.endPosition = NULL) /\ Length(st1) = 0
        THEN Throw(st1)
        ELSE deleteRange(st1,
               IF e.startPosition # NULL THEN e.startPosition
               ELSE textGetPosition(st1, 0),
               IF e.endPosition # NULL THEN e.endPosition
               ELSE textGetPosition(st1, Length(st1) - 1))
      accepted(st1, existing) ==
        IF st1.threw THEN st1
        ELSE IF existing # <<>> THEN range(st1, Head(existing))
        ELSE st1
  IN  accepted(annotationLogAdd(st, r, lam,
                 Removal(0, "suggestion", "acceptSuggestion", r, id)),
               Effective(st.log, id))

acceptSuggestion(st, r, lam, id) ==
  LET range(st1, e) ==
        IF (e.startPosition = NULL \/ e.endPosition = NULL) /\ Length(st1) = 0
        THEN Throw(st1)
        ELSE deleteRange(st1,
               IF e.startPosition # NULL THEN e.startPosition
               ELSE textGetPosition(st1, 0),
               IF e.endPosition # NULL THEN e.endPosition
               ELSE textGetPosition(st1, Length(st1) - 1))
      accepted(st1, existing) ==
        IF st1.threw THEN st1
        ELSE IF existing # <<>> /\ Head(existing).description = "deleteSuggestion"
        THEN range(st1, Head(existing))
        ELSE st1
  IN  accepted(annotationLogAdd(st, r, lam,
                 Removal(0, "suggestion", "acceptSuggestion", r, id)),
               Effective(st.log, id))

\* Mutation: declineSuggestion deletes the marked text of a DeleteSuggestion,
\* as acceptSuggestion does.
declineSuggestionDeletesMarked(st, r, lam, id) ==
  LET range(st1, e) ==
        deleteRange(st1,
          IF e.startPosition # NULL THEN e.startPosition
          ELSE textGetPosition(st1, 0),
          IF e.endPosition # NULL THEN e.endPosition
          ELSE textGetPosition(st1, Length(st1) - 1))
      declined(st1, existing) ==
        IF st1.threw THEN st1
        ELSE IF existing # <<>> /\ Head(existing).description = "deleteSuggestion"
        THEN range(st1, Head(existing))
        ELSE st1
  IN  declined(annotationLogAdd(st, r, lam,
                 Removal(0, "suggestion", "declineSuggestion", r, id)),
               Effective(st.log, id))

declineSuggestion(st, r, lam, id) ==
  LET range(st1, startIndex, endIndex) ==
        IF ~HasIndex(st1.present, startIndex + 1) \/ ~HasIndex(st1.present, endIndex)
        THEN Throw(st1)
        ELSE deleteRange(st1, textGetPosition(st1, startIndex + 1),
                         textGetPosition(st1, endIndex))
      declined(st1, existing) ==
        IF st1.threw THEN st1
        ELSE IF existing # <<>> /\ Head(existing).description = "insertSuggestion"
        THEN range(st1,
               IF Head(existing).startPosition # NULL
               THEN textIndexOfPosition(st1, Head(existing).startPosition, "left")
               ELSE -1,
               (IF Head(existing).endPosition # NULL
                THEN textIndexOfPosition(st1, Head(existing).endPosition, "right")
                ELSE Length(st1)) - 1)
        ELSE st1
  IN  declined(annotationLogAdd(st, r, lam,
                 Removal(0, "suggestion", "declineSuggestion", r, id)),
               Effective(st.log, id))

\* Mutation: an endIndex equal to the length is taken as the last character.
addCommentClampsEnd(st, r, lam, startIndex, endIndex, comment) ==
  IF startIndex < 0 \/ startIndex >= Length(st) THEN Throw(st)
  ELSE IF endIndex < 0 \/ endIndex > Length(st) THEN Throw(st)
  ELSE IF endIndex < startIndex THEN Throw(st)
  ELSE annotationLogAdd(st, r, lam,
         Addition(0, "comment", "addComment", r,
                  textGetPosition(st, startIndex), TRUE,
                  textGetPosition(st, IF endIndex = Length(st)
                                      THEN endIndex - 1 ELSE endIndex),
                  TRUE, comment))

addComment(st, r, lam, startIndex, endIndex, comment) ==
  IF startIndex < 0 \/ startIndex >= Length(st) THEN Throw(st)
  ELSE IF endIndex < 0 \/ endIndex > Length(st) THEN Throw(st)
  ELSE IF endIndex < startIndex THEN Throw(st)
  ELSE IF ~HasIndex(st.present, endIndex) THEN Throw(st)
  ELSE annotationLogAdd(st, r, lam,
         Addition(0, "comment", "addComment", r,
                  textGetPosition(st, startIndex), TRUE,
                  textGetPosition(st, endIndex), TRUE, comment))

\* Mutation: removeComment also deletes the characters the comment covers.
removeCommentDeletesText(st, r, lam, id) ==
  LET removed(st1, existing) ==
        IF existing = <<>> \/ st1.threw THEN st1
        ELSE deleteRange(st1, Head(existing).startPosition,
                         Head(existing).endPosition)
  IN  removed(annotationLogAdd(st, r, lam,
                Removal(0, "comment", "removeComment", r, id)),
              Effective(st.log, id))

removeComment(st, r, lam, id) ==
  annotationLogAdd(st, r, lam, Removal(0, "comment", "removeComment", r, id))

RECURSIVE AllEntries(_, _)
AllEntries(keys, al) ==
  IF keys = <<>> THEN <<>>
  ELSE Flat(al[Head(keys)]) \o AllEntries(Tail(keys), al)

\* One annotation per id: the first entry met walking the data points in order.
getActiveAnnotations(o, al) ==
  LET all == AllEntries(ListOf(o, DOMAIN al), al)
      first(id) == CHOOSE i \in 1..Len(all) :
                     /\ all[i].a.id = id
                     /\ \A j \in 1..(i - 1) : all[j].a.id # id
  IN  {all[first(id)].a : id \in {all[i].a.id : i \in 1..Len(all)}}

(***************************************************************************)
(* The system: two replicas, one transaction per public operation.         *)
(***************************************************************************)
ActiveIds(r) == {a.id : a \in getActiveAnnotations(order, annotationList[r])}

\* lastOp records the operation of the last step: its arguments (for
\* addComment, index and count hold startIndex and endIndex; for a load, id
\* is the replica whose saved state was loaded, keys the order of the change
\* ids in it and above how they compare with replica ids), the text before it (before) and whether the target
\* annotation was active (live) before it.
NoOp == [op |-> "none", r |-> 0, id |-> 0, index |-> 0, count |-> 0,
         isSuggestion |-> FALSE, before |-> {}, live |-> FALSE,
         threw |-> FALSE, keys |-> <<>>, above |-> FALSE]

\* The state after construction: an empty document, an empty log.
New ==
  /\ order = <<>>
  /\ txns = <<>>
  /\ applied = [r \in Replicas |-> {}]
  /\ clock = [r \in Replicas |-> 0]
  /\ known = [r \in Replicas |-> {}]
  /\ present = [r \in Replicas |-> {}]
  /\ log = [r \in Replicas |-> EmptyFn]
  /\ annotationList = [r \in Replicas |-> EmptyFn]
  /\ nextId = 1
  /\ emitted = <<>>
  /\ lastOp = NoOp
  /\ fault = FALSE
  /\ insertedUnder = EmptyFn

Init == New /\ budget = MaxOps

Begin(r, o) ==
  [order |-> o, known |-> known[r], present |-> present[r], log |-> log[r],
   al |-> annotationList[r], events |-> <<>>, msgs |-> <<>>, nid |-> nextId,
   threw |-> FALSE, failed |-> FALSE, under |-> {}]

Lamport(r) == clock[r] + 1

\* A public operation is called while the budget of transactions lasts.
\* (fault says whether an Add handler threw in the last step.)
CanAct == budget > 0

\* The end of a public operation on replica r: the transaction is sent.
Commit(r, st, op) ==
  /\ order' = st.order
  /\ known' = [known EXCEPT ![r] = st.known]
  /\ present' = [present EXCEPT ![r] = st.present]
  /\ log' = [log EXCEPT ![r] = st.log]
  /\ annotationList' = [annotationList EXCEPT ![r] = st.al]
  /\ nextId' = st.nid
  /\ emitted' = st.events
  /\ fault' = st.failed
  /\ lastOp' = [op EXCEPT !.r = r, !.before = present[r], !.threw = (st.threw \/ st.failed),
                          !.live = (op.id \in ActiveIds(r))]
  /\ insertedUnder' = [p \in 1..Len(st.order) |->
                         IF p \in DOMAIN insertedUnder THEN insertedUnder[p]
                         ELSE st.under]
  /\ IF st.msgs = <<>>
     THEN UNCHANGED <<txns, applied, clock, budget>>
     ELSE /\ budget' = budget - 1
          /\ txns' = Append(txns, [sender |-> r, lamport |-> Lamport(r),
                                   deps |-> applied[r], msgs |-> st.msgs])
          /\ applied' = [applied EXCEPT ![r] = @ \cup {Len(txns) + 1}]
          /\ clock' = [clock EXCEPT ![r] = Lamport(r)]

\* The total order after n new positions are created behind slot s.
Grow(s, n) ==
  SubSeq(order, 1, s)
    \o [i \in 1..n |-> Len(order) + i]
    \o SubSeq(order, s + 1, Len(order))

\* The slots a new position may take: after the left neighbour and before
\* the next position this replica knows; the order among positions it does
\* not know yet is the position service's choice.
Slots(r, index) ==
  LET l == IF index = 0 THEN 0
           ELSE Ord(order, GetPosition(order, present[r], index - 1))
      later == {k \in (l + 1)..Len(order) : order[k] \in known[r]}
      nxt == IF later = {} THEN Len(order) + 1
             ELSE CHOOSE k \in later : \A j \in later : k <= j
  IN  l..(nxt - 1)

Insert(r, index, n, isSuggestion) ==
  /\ CanAct
  /\ index \in 0..Cardinality(present[r])
  /\ Len(order) + n <= MaxPos
  /\ \E s \in Slots(r, index) :
       Commit(r, insert(Begin(r, Grow(s, n)), r, Lamport(r), index,
                        {Len(order) + i : i \in 1..n}, isSuggestion),
              [NoOp EXCEPT !.op = "insert", !.index = index, !.count = n,
                           !.isSuggestion = isSuggestion])

Delete(r, index, count, isSuggestion) ==
  /\ CanAct
  /\ index >= 0 /\ count >= 1
  /\ index + count <= Cardinality(present[r])
  /\ Commit(r, delete(Begin(r, order), r, Lamport(r), index, count, isSuggestion),
            [NoOp EXCEPT !.op = "delete", !.index = index, !.count = count,
                         !.isSuggestion = isSuggestion])

AcceptSuggestion(r, id) ==
  /\ CanAct
  /\ id \in DOMAIN log[r] \cup {UnknownId}
  /\ Commit(r, acceptSuggestion(Begin(r, order), r, Lamport(r), id),
            [NoOp EXCEPT !.op = "accept", !.id = id])

DeclineSuggestion(r, id) ==
  /\ CanAct
  /\ id \in DOMAIN log[r] \cup {UnknownId}
  /\ Commit(r, declineSuggestion(Begin(r, order), r, Lamport(r), id),
            [NoOp EXCEPT !.op = "decline", !.id = id])

AddComment(r, startIndex, endIndex) ==
  /\ CanAct
  /\ Commit(r, addComment(Begin(r, order), r, Lamport(r), startIndex, endIndex, 1),
            [NoOp EXCEPT !.op = "addComment", !.index = startIndex,
                         !.count = endIndex])

RemoveComment(r, id) ==
  /\ CanAct
  /\ id \in DOMAIN log[r] \cup {UnknownId}
  /\ Commit(r, removeComment(Begin(r, order), r, Lamport(r), id),
            [NoOp EXCEPT !.op = "removeComment", !.id = id])

\* Delivery of the next transaction of the other replica, message by message.
RECURSIVE receiveAll(_, _)
receiveAll(st, msgs) ==
  IF msgs = <<>> \/ st.threw THEN st
  ELSE LET m == Head(msgs)
           st1 == IF m.kind = "insert" THEN applyInsert(st, m.positions)
                  ELSE IF m.kind = "delete" THEN applyDelete(st, m.positions)
                  ELSE receiveCRDT(st, m.annotation)
       IN  receiveAll(st1, Tail(msgs))

Pending(r) == {t \in 1..Len(txns) : t \notin applied[r]}

Received(r, t, st) ==
  /\ known' = [known EXCEPT ![r] = st.known]
  /\ present' = [present EXCEPT ![r] = st.present]
  /\ log' = [log EXCEPT ![r] = st.log]
  /\ annotationList' = [annotationList EXCEPT ![r] = st.al]
  /\ applied' = [applied EXCEPT ![r] = @ \cup {t}]
  /\ clock' = [clock EXCEPT ![r] = Max(@, txns[t].lamport)]
  /\ emitted' = st.events
  /\ fault' = st.failed
  /\ lastOp' = [NoOp EXCEPT !.op = "deliver", !.r = r, !.id = t,
                            !.before = present[r], !.threw = (st.threw \/ st.failed)]
  /\ UNCHANGED <<order, txns, nextId, insertedUnder, budget>>

Oldest(S) == CHOOSE k \in S : \A j \in S : k <= j

Deliver(r) ==
  /\ Pending(r) # {}
  /\ Received(r, Oldest(Pending(r)),
              receiveAll(Begin(r, order), txns[Oldest(Pending(r))].msgs))

\* Two editors in suggestion mode, starting from the empty document.
Next ==
  \E r \in Replicas :
    \/ Deliver(r)
    \/ \E index \in 0..MaxPos, n \in 1..MaxIns, isSuggestion \in BOOLEAN :
         Insert(r, index, n, isSuggestion)
    \/ \E index \in 0..MaxPos, count \in 1..MaxPos, isSuggestion \in BOOLEAN :
         Delete(r, index, count, isSuggestion)
    \/ \E id \in 1..nextId : AcceptSuggestion(r, id)
    \/ \E id \in 1..nextId : DeclineSuggestion(r, id)

Spec == Init /\ [][Next]_vars

\* The state of Spec after replica 1 typed MaxSeed characters directly into
\* the empty document and replica 2 received them.
Seeded ==
  /\ order = [i \in 1..MaxSeed |-> i]
  /\ txns = <<[sender |-> 1, lamport |-> 1, deps |-> {},
               msgs |-> <<TextMsg("insert", 1..MaxSeed)>>]>>
  /\ applied = [r \in Replicas |-> {1}]
  /\ clock = [r \in Replicas |-> 1]
  /\ known = [r \in Replicas |-> 1..MaxSeed]
  /\ present = [r \in Replicas |-> 1..MaxSeed]
  /\ log = [r \in Replicas |-> EmptyFn]
  /\ annotationList = [r \in Replicas |-> EmptyFn]
  /\ nextId = 1
  /\ emitted = <<>>
  /\ lastOp = NoOp
  /\ fault = FALSE
  /\ insertedUnder = [p \in 1..MaxSeed |-> {}]

InitReview == Seeded /\ budget = MaxReviewOps

\* Reviewing that text: deletions are suggested or made, suggestions are
\* accepted and declined.
NextReview ==
  \E r \in Replicas :
    \/ Deliver(r)
    \/ \E index \in 0..MaxPos, count \in 1..MaxPos, isSuggestion \in BOOLEAN :
         Delete(r, index, count, isSuggestion)
    \/ \E id \in 1..nextId : AcceptSuggestion(r, id)
    \/ \E id \in 1..nextId : DeclineSuggestion(r, id)

SpecReview == InitReview /\ [][NextReview]_vars

\* Commenting on a text that is edited directly.
InitComments == New /\ budget = MaxCommentOps

NextComments ==
  \E r \in Replicas :
    \/ Deliver(r)
    \/ \E index \in 0..MaxPos, n \in 1..MaxIns : Insert(r, index, n, FALSE)
    \/ \E index \in 0..MaxPos, count \in 1..MaxPos : Delete(r, index, count, FALSE)
    \/ \E startIndex \in 0..MaxPos, endIndex \in 0..MaxPos :
         startIndex <= endIndex /\ AddComment(r, startIndex, endIndex)
    \/ \E id \in 1..nextId : RemoveComment(r, id)

SpecComments == InitComments /\ [][NextComments]_vars

\* Replica r loads the state replica s saves now: the text list merges the
\* saved characters and deletions, the runtime merges what was applied, and
\* the log loads the saved histories, change ids in the order keys.
KeyOrders(S) ==
  {f \in [1..Cardinality(S) -> S] : \A i, j \in DOMAIN f : f[i] = f[j] => i = j}

loadText(st, savedKnown, savedPresent) ==
  [st EXCEPT !.known = @ \cup savedKnown,
             !.present = {p \in st.known \cup savedKnown :
                            /\ p \in st.known => p \in st.present
                            /\ p \in savedKnown => p \in savedPresent}]

Loaded(r, s, keys, above, st) ==
  /\ known' = [known EXCEPT ![r] = st.known]
  /\ present' = [present EXCEPT ![r] = st.present]
  /\ log' = [log EXCEPT ![r] = st.log]
  /\ annotationList' = [annotationList EXCEPT ![r] = st.al]
  /\ applied' = [applied EXCEPT ![r] = @ \cup applied[s]]
  /\ clock' = [clock EXCEPT ![r] = Max(@, clock[s])]
  /\ emitted' = st.events
  /\ fault' = st.failed
  /\ lastOp' = [NoOp EXCEPT !.op = "load", !.r = r, !.id = s, !.keys = keys,
                            !.above = above,
                            !.before = present[r], !.threw = (st.threw \/ st.failed)]
  /\ budget' = budget - 1
  /\ UNCHANGED <<order, txns, nextId, insertedUnder>>

Load(r, s) ==
  /\ CanAct
  /\ r # s
  /\ \E keys \in KeyOrders(DOMAIN log[s]), above \in BOOLEAN :
       Loaded(r, s, keys, above,
              loadCRDT(loadText(Begin(r, order), known[s], present[s]),
                       keys, saveCRDT(log[s], keys), above))

InitLoad == New /\ budget = MaxLoadOps

\* Text is edited, suggestions are made and accepted; a replica catches up
\* by delivery or by loading the other replica's saved state.
NextLoad ==
  \E r \in Replicas :
    \/ Deliver(r)
    \/ \E index \in 0..MaxPos, n \in 1..MaxIns, isSuggestion \in BOOLEAN :
         Insert(r, index, n, isSuggestion)
    \/ \E index \in 0..MaxPos, count \in 1..MaxPos, isSuggestion \in BOOLEAN :
         Delete(r, index, count, isSuggestion)
    \/ \E id \in DOMAIN log[r] : AcceptSuggestion(r, id)
    \/ \E s \in Replicas : Load(r, s)

SpecLoad == InitLoad /\ [][NextLoad]_vars

\* wins applied to two records: each replica holds one record, of any
\* action, lamport and senderID (a replica id, or a change id set by a
\* load), and any record is compared with any.
Senders == Replicas \cup {AsSender(1, TRUE), AsSender(1, FALSE)}

Records ==
  {[a EXCEPT !.lamport = l, !.senderID = s] :
     a \in {Addition(1, "comment", "addComment", 1, 1, TRUE, 1, TRUE, 1),
            Removal(1, "comment", "removeComment", 1, 1),
            Update(1, 1, 1, FALSE, NULL, FALSE, NULL)},
     l \in 1..MaxLamport, s \in Senders}

RecordOf(r) == log[r][1][1]

InitWins ==
  /\ order = <<>>
  /\ txns = <<>>
  /\ applied = [r \in Replicas |-> {}]
  /\ clock = [r \in Replicas |-> 0]
  /\ known = [r \in Replicas |-> {}]
  /\ present = [r \in Replicas |-> {}]
  /\ \E f \in [Replicas -> Records] : log = [r \in Replicas |-> 1 :> <<f[r]>>]
  /\ annotationList = [r \in Replicas |-> EmptyFn]
  /\ nextId = 1
  /\ emitted = <<>>
  /\ lastOp = NoOp
  /\ fault = FALSE
  /\ insertedUnder = EmptyFn
  /\ budget = 0

\* wins(annotationA, annotationB) with the records of replicas i and j; the
\* result is kept in lastOp.live.
Wins(i, j) ==
  /\ lastOp' = [NoOp EXCEPT !.op = "wins", !.r = i, !.id = j,
                            !.live = wins(RecordOf(i), RecordOf(j))]
  /\ UNCHANGED <<order, txns, applied, clock, known, present, log,
                 annotationList, nextId, emitted, fault, insertedUnder, budget>>

NextWins == \E i, j \in Replicas : Wins(i, j)

SpecWins == InitWins /\ [][NextWins]_vars

\* addComment called with any pair of indices, in range or not, on a text
\* that is edited directly.
InitCalls == New /\ budget = MaxCallOps

NextCalls ==
  \E r \in Replicas :
    \/ Deliver(r)
    \/ \E index \in 0..MaxPos, n \in 1..MaxIns : Insert(r, index, n, FALSE)
    \/ \E index \in 0..MaxPos, count \in 1..MaxPos : Delete(r, index, count, FALSE)
    \/ \E startIndex \in -1..MaxPos, endIndex \in -1..MaxPos :
         AddComment(r, startIndex, endIndex)

SpecCalls == InitCalls /\ [][NextCalls]_vars

\* The annotation records a transaction carries.
RecordsOf(t) ==
  {t.msgs[k].annotation : k \in {j \in 1..Len(t.msgs) :
                                   t.msgs[j].kind = "annotation"}}

NumRecords(t) ==
  Cardinality({k \in 1..Len(t.msgs) : t.msgs[k].kind = "annotation"})

\* Peers that are not modelled (sender 0) created the annotation UnknownId
\* (lamport 1), updated it (lamport 2), removed it (lamport 3) and updated
\* it again without having seen the Removal (lamport 4).  Their records
\* reach the replicas in any order, so that a Removal or an Update may be
\* delivered to a log that does not hold the Addition (not yet, or never).
StrayRecord(action) ==
  IF action = "addition"
  THEN [Addition(UnknownId, "suggestion", "insertSuggestion", 0,
                 NULL, FALSE, NULL, FALSE, 0) EXCEPT !.lamport = 1]
  ELSE IF action = "removal"
  THEN [Removal(nextId, "suggestion", "acceptSuggestion", 0, UnknownId)
          EXCEPT !.lamport = 3]
  ELSE [Update(nextId, 0, UnknownId, TRUE, NULL, FALSE, NULL)
          EXCEPT !.lamport = IF action = "update" THEN 2 ELSE 4]

\* Each of the peers' records is sent once.
StraySent(action) ==
  \E t \in 1..Len(txns) :
    /\ txns[t].sender = 0
    /\ txns[t].lamport = StrayRecord(action).lamport

Stray(action) ==
  /\ budget > 0
  /\ ~StraySent(action)
  /\ budget' = budget - 1
  /\ txns' = Append(txns,
       [sender |-> 0, lamport |-> StrayRecord(action).lamport, deps |-> {},
        msgs |-> <<[kind |-> "annotation", positions |-> {},
                    annotation |-> StrayRecord(action)]>>])
  /\ nextId' = IF action = "addition" THEN nextId ELSE nextId + 1
  /\ lastOp' = [NoOp EXCEPT !.op = "stray"]
  /\ emitted' = <<>>
  /\ UNCHANGED <<order, applied, clock, known, present, log, annotationList,
                 fault, insertedUnder>>

InitStray == New /\ budget = MaxStrayOps

\* Suggestions are made and reviewed while records of an unknown
\* annotation arrive, and while users accept, decline or remove an id the
\* replica does not know.
NextStray ==
  \/ \E action \in {"addition", "update", "removal"} : Stray(action)
  \/ \E r \in Replicas :
       \/ Deliver(r)
       \/ \E index \in 0..MaxPos, n \in 1..MaxIns : Insert(r, index, n, TRUE)
       \/ \E id \in DOMAIN log[r] \cup {UnknownId} : AcceptSuggestion(r, id)
       \/ \E id \in DOMAIN log[r] \cup {UnknownId} : DeclineSuggestion(r, id)
       \/ \E id \in DOMAIN log[r] \cup {UnknownId} : RemoveComment(r, id)

SpecStray == InitStray /\ [][NextStray]_vars

\* All four records of the peers arrive, in any order, at two replicas that
\* hold the text typed by replica 1.
InitStale == Seeded /\ budget = MaxStaleOps

NextStale ==
  \/ \E action \in {"addition", "update", "removal", "lateUpdate"} :
       Stray(action)
  \/ \E r \in Replicas : Deliver(r)

SpecStale == InitStale /\ [][NextStale]_vars

\* A peer's Addition and Removal arrive in any order at replicas that make
\* suggestions of their own.
InitEarly == New /\ budget = MaxEarlyOps

NextEarly ==
  \/ \E action \in {"addition", "removal"} : Stray(action)
  \/ \E r \in Replicas :
       \/ Deliver(r)
       \/ \E index \in 0..MaxPos, n \in 1..MaxIns : Insert(r, index, n, TRUE)

SpecEarly == InitEarly /\ [][NextEarly]_vars

\* Text of one or more characters is typed directly next to the suggestions
\* of two replicas, which are then declined.
InitEdges == New /\ budget = MaxEdgeOps

NextEdges ==
  \E r \in Replicas :
    \/ Deliver(r)
    \/ \E index \in 0..MaxPos, n \in 1..MaxIns : Insert(r, index, n, TRUE)
    \/ \E index \in 0..MaxPos, n \in 1..MaxDirectIns : Insert(r, index, n, FALSE)
    \/ \E id \in 1..nextId : DeclineSuggestion(r, id)

SpecEdges == InitEdges /\ [][NextEdges]_vars

(***************************************************************************)
(* Views used by the properties.                                           *)
(***************************************************************************)
View(r) == [order |-> order, present |-> present[r], al |-> annotationList[r]]

Active(r) == getActiveAnnotations(order, annotationList[r])

AnnotationsAt(r, p) == getAnnotationsInternal(View(r), p)

Shape(a) == <<a.id, a.startPosition, a.endPosition, a.startClosed,
              a.endClosed, a.value>>

History(r, id) == LogGet(log[r], id)

HasAddition(r, id) ==
  \E i \in 1..Len(History(r, id)) : History(r, id)[i].action = "addition"

LastAction(r, id) == History(r, id)[Len(History(r, id))].action

\* Transactions i and j are concurrent when neither sender had applied the
\* other's transaction; the two replicas then apply them in opposite orders.
Concurrent(i, j) == i \notin txns[j].deps /\ j \notin txns[i].deps /\ i # j

ConcurrentRecords ==
  \E i, j \in 1..Len(txns) :
    /\ Concurrent(i, j)
    /\ \E k \in 1..Len(txns[i].msgs) : txns[i].msgs[k].kind = "annotation"
    /\ \E k \in 1..Len(txns[j].msgs) : txns[j].msgs[k].kind = "annotation"

\* C1: two replicas that hold the same annotation records return the same
\* active annotations (same ids, same effective range, flags and value).
C1_ActiveSetConverges ==
  log[1] = log[2] =>
    {Shape(a) : a \in Active(1)} = {Shape(a) : a \in Active(2)}

C1_Witness ==
  /\ log[1] = log[2]
  /\ applied[1] = applied[2]
  /\ ConcurrentRecords
  /\ Active(1) # {}

\* C2: two replicas that applied the same transactions report the same
\* annotation ids at every position.
C2_PositionViewConverges ==
  applied[1] = applied[2] =>
    \A p \in known[1] : Ids(AnnotationsAt(1, p)) = Ids(AnnotationsAt(2, p))

InRange(a, p) ==
  LET afterStart == a.startPosition = NULL
                      \/ Ord(order, a.startPosition) < Ord(order, p)
      beforeEnd == a.endPosition = NULL
                     \/ Ord(order, p) < Ord(order, a.endPosition)
  IN  \/ afterStart /\ beforeEnd
      \/ p = a.startPosition /\ a.startClosed
      \/ p = a.endPosition /\ a.endClosed

\* C3: at every present position p, annotations_at(p) holds a live
\* annotation exactly when p is inside its range, or is a closed endpoint.
C3_EndpointSemantics ==
  \A r \in Replicas : \A p \in present[r] : \A a \in Active(r) :
    (a.id \in Ids(AnnotationsAt(r, p))) <=> InRange(a, p)

\* C9: an annotation id is active on a replica exactly when the log holds
\* its Addition and the last record of its history is not a Removal.
C9_Lifecycle ==
  \A r \in Replicas : \A id \in 1..nextId :
    (id \in ActiveIds(r)) <=>
      (HasAddition(r, id) /\ LastAction(r, id) # "removal")

C9_Witness ==
  \E r \in Replicas : \E id \in DOMAIN log[r] :
    /\ Len(History(r, id)) >= 3
    /\ \E i \in 1..Len(History(r, id)) : History(r, id)[i].action = "removal"
    /\ LastAction(r, id) = "update"
    /\ id \in ActiveIds(r)

TargetDesc(r, id) ==
  LET found == SelectSeq(History(r, id), LAMBDA a : a.action = "addition")
  IN  IF found = <<>> THEN "none" ELSE Head(found).description

Count(events, P(_)) == Cardinality({i \in 1..Len(events) : P(events[i])})

\* The characters inserted under suggestion id.
InsertedUnder(id) == {p \in DOMAIN insertedUnder : id \in insertedUnder[p]}

\* The characters of S inside the closed range [startPosition, endPosition].
Covered(S, a) ==
  {p \in S : /\ Ord(order, a.startPosition) <= Ord(order, p)
             /\ Ord(order, p) <= Ord(order, a.endPosition)}

\* C5: declining a live InsertSuggestion removes every character inserted
\* under it and no other character.
C5_DeclineRemovesExactlyInserted ==
  (lastOp.op = "decline" /\ lastOp.live
     /\ TargetDesc(lastOp.r, lastOp.id) = "insertSuggestion") =>
    /\ InsertedUnder(lastOp.id) \cap present[lastOp.r] = {}
    /\ (lastOp.before \ present[lastOp.r]) \subseteq InsertedUnder(lastOp.id)

IsRemovedWith(id, reason) ==
  /\ Count(emitted, LAMBDA e : e.ev = "AnnotationRemoved" /\ e.annotation.id = id) = 1
  /\ Count(emitted, LAMBDA e : e.ev = "AnnotationRemoved" /\ e.annotation.id = id
                                 /\ e.reason = reason) = 1

AcceptedLiveDelete ==
  /\ lastOp.op = "accept" /\ lastOp.live
  /\ TargetDesc(lastOp.r, lastOp.id) = "deleteSuggestion"

CarriesRemoval(t, description, target) ==
  \E k \in 1..Len(t.msgs) :
    /\ t.msgs[k].kind = "annotation"
    /\ t.msgs[k].annotation.description = description
    /\ TargetDesc(t.sender, t.msgs[k].annotation.dependentOn) = target

\* C7: accepting an InsertSuggestion leaves the text unchanged on the
\* accepting replica and on the replica the Removal is delivered to.
C7_AcceptInsertKeepsText ==
  /\ (lastOp.op = "accept"
        /\ TargetDesc(lastOp.r, lastOp.id) = "insertSuggestion") =>
       present[lastOp.r] = lastOp.before
  /\ (lastOp.op = "deliver"
        /\ CarriesRemoval(txns[lastOp.id], "acceptSuggestion", "insertSuggestion")) =>
       present[lastOp.r] = lastOp.before

C7_Witness ==
  /\ lastOp.op = "deliver"
  /\ CarriesRemoval(txns[lastOp.id], "acceptSuggestion", "insertSuggestion")
  /\ present[lastOp.r] # {}
  /\ \A r \in Replicas : \E id \in DOMAIN log[r] :
       /\ TargetDesc(r, id) = "insertSuggestion"
       /\ LastAction(r, id) = "removal"
       /\ InsertedUnder(id) \cap present[r] # {}

\* C8: declining a DeleteSuggestion leaves the text unchanged on the
\* declining replica and on the replica the Removal is delivered to.
C8_DeclineDeleteKeepsText ==
  /\ (lastOp.op = "decline"
        /\ TargetDesc(lastOp.r, lastOp.id) = "deleteSuggestion") =>
       present[lastOp.r] = lastOp.before
  /\ (lastOp.op = "deliver"
        /\ CarriesRemoval(txns[lastOp.id], "declineSuggestion", "deleteSuggestion")) =>
       present[lastOp.r] = lastOp.before

C8_Witness ==
  /\ lastOp.op = "deliver"
  /\ CarriesRemoval(txns[lastOp.id], "declineSuggestion", "deleteSuggestion")
  /\ \A r \in Replicas : \E id \in DOMAIN log[r] :
       /\ TargetDesc(r, id) = "deleteSuggestion"
       /\ LastAction(r, id) = "removal"
       /\ Covered(present[r], Head(Effective(log[r], id))) # {}

\* The Removal a transaction carries (a transaction carries at most one).
RemovalsOf(t) ==
  {t.msgs[k].annotation : k \in {j \in 1..Len(t.msgs) :
      t.msgs[j].kind = "annotation" /\ t.msgs[j].annotation.action = "removal"}}

DeletesText(t) == \E k \in 1..Len(t.msgs) : t.msgs[k].kind = "delete"

\* C4: when an accept and a concurrent decline of the same DeleteSuggestion,
\* and everything else, have been delivered everywhere (no other operation
\* deleted text), both replicas hold the same text, and the covered
\* characters are gone if the accepting Removal sorts last and are all
\* present if the declining Removal sorts last.
C4_AcceptVersusDecline ==
  \A i, j \in 1..Len(txns) :
    \A acc \in RemovalsOf(txns[i]), dec \in RemovalsOf(txns[j]) :
      (/\ Concurrent(i, j)
       /\ acc.description = "acceptSuggestion"
       /\ dec.description = "declineSuggestion"
       /\ acc.dependentOn = dec.dependentOn
       /\ TargetDesc(1, acc.dependentOn) = "deleteSuggestion"
       /\ \A r \in Replicas : applied[r] = 1..Len(txns)
       /\ \A k \in 1..Len(txns) : DeletesText(txns[k]) => k = i)
      => /\ present[1] = present[2]
         /\ LET covered == Covered(known[1],
                             Head(Effective(log[1], acc.dependentOn)))
            IN  IF SortsAfter(acc, dec) THEN covered \cap present[1] = {}
                ELSE covered \subseteq present[1]

\* C10: a Removal delivered to a replica whose history of that annotation
\* already ends in a Removal leaves the view unchanged and emits no
\* AnnotationRemoved event.
C10_LosingRemovalDropped ==
  [][\A r \in Replicas :
       (/\ lastOp'.op = "deliver" /\ lastOp'.r = r
        /\ \E a \in RemovalsOf(txns[lastOp'.id]) :
             /\ History(r, a.dependentOn) # <<>>
             /\ LastAction(r, a.dependentOn) = "removal")
       => /\ annotationList'[r] = annotationList[r]
          /\ Count(emitted', LAMBDA e : e.ev = "AnnotationRemoved") = 0]_vars

\* The characters a transaction inserts into the text.
InsertedBy(t) ==
  UNION {t.msgs[k].positions : k \in {j \in 1..Len(t.msgs) :
                                        t.msgs[j].kind = "insert"}}

Synced == \A r \in Replicas : applied[r] = 1..Len(txns)

\* Transaction i declines insert suggestion id while the concurrent
\* transaction j of the suggestion's author inserts further characters
\* under it.
DeclineRacesGrowth(i, j, id) ==
  /\ Concurrent(i, j)
  /\ \E dec \in RemovalsOf(txns[i]) :
       dec.description = "declineSuggestion" /\ dec.dependentOn = id
  /\ TargetDesc(txns[i].sender, id) = "insertSuggestion"
  /\ InsertedBy(txns[j]) # {}
  /\ InsertedBy(txns[j]) \subseteq InsertedUnder(id)

\* C11: when a decline of an InsertSuggestion races with an insert that
\* extends the suggestion, then after everything is delivered the
\* suggestion is active on no replica and none of its characters, the
\* concurrently added ones included, is left in the text of any replica.
C11_DeclineRacesGrowth ==
  \A i, j \in 1..Len(txns) : \A id \in 1..nextId :
    (DeclineRacesGrowth(i, j, id) /\ Synced) =>
      \A r \in Replicas :
        /\ id \notin ActiveIds(r)
        /\ InsertedUnder(id) \cap present[r] = {}


\* The Addition records a transaction carries.
AdditionsOf(t) ==
  {t.msgs[k].annotation : k \in {j \in 1..Len(t.msgs) :
      t.msgs[j].kind = "annotation" /\ t.msgs[j].annotation.action = "addition"}}

\* The characters of replica r's text that lie in the range of a.
RangeOf(r, a) == {p \in present[r] : InRange(a, p)}

\* Transactions i and j are concurrent suggestion-inserts at index 0 by two
\* users, creating the insert suggestions a and b, the only annotations.
ConcurrentInsertsAtZero(i, j, a, b) ==
  /\ Concurrent(i, j)
  /\ txns[i].sender # txns[j].sender
  /\ a.description = "insertSuggestion" /\ a.startPosition = NULL
  /\ b.description = "insertSuggestion" /\ b.startPosition = NULL
  /\ \A r \in Replicas :
       /\ DOMAIN log[r] = {a.id, b.id}
       /\ Len(log[r][a.id]) = 1 /\ Len(log[r][b.id]) = 1

\* C12: after two users concurrently insert at index 0 as a suggestion and
\* everything is delivered, each replica has exactly the two suggestions
\* active, each by its author and each covering exactly the characters its
\* author inserted.
C12_ConcurrentInsertsSeparate ==
  \A i, j \in 1..Len(txns) :
    \A a \in AdditionsOf(txns[i]), b \in AdditionsOf(txns[j]) :
      (ConcurrentInsertsAtZero(i, j, a, b) /\ Synced) =>
        \A r \in Replicas :
          /\ ActiveIds(r) = {a.id, b.id}
          /\ \A x \in Active(r) :
               /\ x.id = a.id =>
                    /\ x.userId = txns[i].sender
                    /\ RangeOf(r, x) = InsertedBy(txns[i]) \cap present[r]
               /\ x.id = b.id =>
                    /\ x.userId = txns[j].sender
                    /\ RangeOf(r, x) = InsertedBy(txns[j]) \cap present[r]


\* The transactions replica r sent from transaction k on.
SeqOf(r, k) == {u \in k..Len(txns) : txns[u].sender = r}

InsertedIn(U) == UNION {InsertedBy(txns[u]) : u \in U}

\* The characters of transaction u were typed next to (or between)
\* characters typed earlier in the sequence of r that starts at k, in the
\* text r had at that moment.
TypedAdjacent(r, k, u) ==
  LET earlier == InsertedIn({v \in SeqOf(r, k) : v < u})
      cur == InsertedBy(txns[u])
      others == (present[r] \ InsertedIn({v \in SeqOf(r, k) : v > u})) \ cur
  IN  \E p \in cur, q \in earlier :
        \A m \in others :
          ~ \/ Ord(order, p) < Ord(order, m) /\ Ord(order, m) < Ord(order, q)
            \/ Ord(order, q) < Ord(order, m) /\ Ord(order, m) < Ord(order, p)

\* Since transaction k, in which replica r created insert suggestion a (its
\* user's first), r did nothing but suggestion-inserts next to the text of
\* the suggestion, and received nothing.
AbsorbingSequence(r, k, a) ==
  /\ txns[k].sender = r
  /\ a \in AdditionsOf(txns[k])
  /\ a.description = "insertSuggestion"
  /\ \A u \in 1..(k - 1) : txns[u].sender = r =>
       \A b \in AdditionsOf(txns[u]) : b.description # "insertSuggestion"
  /\ applied[r] = txns[k].deps \cup SeqOf(r, k)
  /\ \A u \in SeqOf(r, k) :
       /\ InsertedBy(txns[u]) # {}
       /\ \A p \in InsertedBy(txns[u]) : insertedUnder[p] # {}
       /\ u > k => TypedAdjacent(r, k, u)

OwnInsertSuggestions(r) ==
  {x \in Active(r) : x.description = "insertSuggestion" /\ x.userId = r}

\* C13: after a suggestion-insert followed by suggestion-inserts of the
\* same user inside or next to the suggested text, the log holds one
\* Addition(InsertSuggestion) of that user and the active annotations hold
\* one InsertSuggestion of that user, whose range covers every character
\* inserted.
C13_AdjacentInsertsAbsorbed ==
  \A r \in Replicas : \A k \in 1..Len(txns) : \A a \in AdditionsOf(txns[k]) :
    AbsorbingSequence(r, k, a) =>
      /\ {id \in DOMAIN log[r] : /\ TargetDesc(r, id) = "insertSuggestion"
                                 /\ Head(log[r][id]).userId = r} = {a.id}
      /\ {x.id : x \in OwnInsertSuggestions(r)} = {a.id}
      /\ \A x \in OwnInsertSuggestions(r) :
           InsertedIn(SeqOf(r, k)) \subseteq RangeOf(r, x)

\* The history of id on replica r holds a Removal and ends in an Update.
UpdateDominatesRemoval(r, id) ==
  /\ HasAddition(r, id)
  /\ \E i \in 1..Len(History(r, id)) : History(r, id)[i].action = "removal"
  /\ LastAction(r, id) = "update"

\* C14: on a replica that holds a Removal of an annotation and an Update of
\* it that sorts after every Removal, the annotation is active and has the
\* range the Update gives it.
C14_UpdateResurrects ==
  \A r \in Replicas : \A id \in DOMAIN log[r] :
    UpdateDominatesRemoval(r, id) =>
      /\ id \in ActiveIds(r)
      /\ \A x \in Active(r) : x.id = id =>
           LET u == History(r, id)[Len(History(r, id))]
           IN  /\ u.hasStart => x.startPosition = u.startPosition
               /\ u.hasEnd => x.endPosition = u.endPosition


\* The last step was insert(index, text, false): the transaction it sent is
\* the last one, and its characters were inserted under no suggestion.
DirectInsert ==
  /\ lastOp.op = "insert"
  /\ \A p \in InsertedBy(txns[Len(txns)]) : insertedUnder[p] = {}

SuggestedDelete ==
  lastOp.op = "delete" /\ lastOp.isSuggestion /\ ~lastOp.threw

Removed == lastOp.before \ present[lastOp.r]

\* C16: delete(index, count, true) removes characters from the text only
\* when the whole range lies inside one live InsertSuggestion of the
\* calling user; otherwise it leaves the text unchanged and only appends an
\* annotation record.
C16_SuggestedDeleteOnlyInsideOwn ==
  SuggestedDelete =>
    IF Removed # {}
    THEN \E x \in OwnInsertSuggestions(lastOp.r) :
           \A p \in Removed : InRange(x, p)
    ELSE /\ NumRecords(txns[Len(txns)]) = 1
         /\ ~DeletesText(txns[Len(txns)])


\* The positions of the range [index, index + count - 1] of replica r's text.
TextRange(r, index, count) ==
  {GetPosition(order, present[r], i) : i \in index..(index + count - 1)}

\* The range lies inside one active insert suggestion of r's user.
InsideOwnInsertion(r, index, count) ==
  \E x \in OwnInsertSuggestions(r) :
    \A p \in TextRange(r, index, count) : InRange(x, p)

OwnDeleteSuggestions(r) ==
  {x \in Active(r) : x.description = "deleteSuggestion" /\ x.userId = r}

\* The active delete suggestions of r's user that cover text index i.
OwnDeletesAt(r, i) ==
  IF i < 0 \/ i >= Cardinality(present[r]) THEN {}
  ELSE {x \in OwnDeleteSuggestions(r) :
          InRange(x, GetPosition(order, present[r], i))}

\* C17: delete(index, count, true) on a range that is not inside an
\* InsertSuggestion of the caller and has no DeleteSuggestion of the caller
\* next to it leaves the text unchanged and appends exactly one record: an
\* Addition(DeleteSuggestion) of the caller, closed at both ends, from
\* position(index) to position(index + count - 1).
C17_NewDeleteSuggestion ==
  [][(/\ SuggestedDelete'
      /\ ~InsideOwnInsertion(lastOp'.r, lastOp'.index, lastOp'.count)
      /\ OwnDeletesAt(lastOp'.r, lastOp'.index - 1) = {}
      /\ OwnDeletesAt(lastOp'.r, lastOp'.index + lastOp'.count) = {})
     => LET r == lastOp'.r
            t == txns'[Len(txns')]
        IN  /\ present'[r] = present[r]
            /\ Len(txns') = Len(txns) + 1
            /\ Len(t.msgs) = 1
            /\ \A a \in RecordsOf(t) :
                 /\ a.action = "addition"
                 /\ a.description = "deleteSuggestion"
                 /\ a.userId = r
                 /\ a.startClosed /\ a.endClosed
                 /\ a.startPosition =
                      GetPosition(order, present[r], lastOp'.index)
                 /\ a.endPosition =
                      GetPosition(order, present[r],
                                  lastOp'.index + lastOp'.count - 1)]_vars


\* The delete suggestions of the caller that a delete(index, count, true)
\* is to be merged with: those covering index - 1 or, if there is none,
\* those covering index + count.
MergeTargets(r, index, count) ==
  IF OwnDeletesAt(r, index - 1) # {} THEN OwnDeletesAt(r, index - 1)
  ELSE OwnDeletesAt(r, index + count)

\* C18: delete(index, count, true) next to a live DeleteSuggestion of the
\* caller appends exactly one record, an Update of that suggestion, and
\* afterwards the suggestion covers every character it covered before and
\* the characters [index, index + count - 1].
C18_DeleteSuggestionsMerge ==
  [][\A r \in Replicas : \A index \in 0..MaxPos : \A count \in 1..MaxPos :
       (/\ SuggestedDelete'
        /\ lastOp'.r = r /\ lastOp'.index = index /\ lastOp'.count = count
        /\ ~InsideOwnInsertion(r, index, count)
        /\ MergeTargets(r, index, count) # {})
       => /\ Len(txns') = Len(txns) + 1
          /\ Len(txns'[Len(txns')].msgs) = 1
          /\ \A u \in RecordsOf(txns'[Len(txns')]) :
               /\ u.action = "update"
               /\ \E x \in MergeTargets(r, index, count) :
                    /\ x.id = u.dependentOn
                    /\ \E y \in Active(r)' :
                         /\ y.id = x.id
                         /\ RangeOf(r, x) \subseteq RangeOf(r, y)'
                         /\ TextRange(r, index, count) \subseteq RangeOf(r, y)'
    ]_vars

\* The last step was insert(index, text, true) and did not throw.
SuggestedInsert ==
  lastOp.op = "insert" /\ lastOp.isSuggestion /\ ~lastOp.threw

\* C19: insert(index, text, true) at a point that no live InsertSuggestion
\* of the caller covers appends exactly one Addition: an InsertSuggestion of
\* the caller, open at both ends, from the position before index (null at
\* index 0) to the position after the inserted text (null at the end of
\* the document).
C19_NewInsertSuggestion ==
  [][\A r \in Replicas : \A index \in 0..MaxPos : \A p \in 1..MaxPos :
       (/\ SuggestedInsert'
        /\ lastOp'.r = r /\ lastOp'.index = index
        /\ p \in InsertedBy(txns'[Len(txns')])
        /\ \A x \in OwnInsertSuggestions(r) : ~InRange(x, p)')
       => /\ Cardinality(AdditionsOf(txns'[Len(txns')])) = 1
          /\ \A a \in AdditionsOf(txns'[Len(txns')]) :
               /\ a.description = "insertSuggestion"
               /\ a.userId = r
               /\ ~a.startClosed /\ ~a.endClosed
               /\ a.startPosition =
                    IF index = 0 THEN NULL
                    ELSE GetPosition(order, present[r], index - 1)
               /\ a.endPosition =
                    IF index = Cardinality(present[r]) THEN NULL
                    ELSE GetPosition(order, present[r], index)
    ]_vars


\* The annotation records replica r processed in the last step: those of the
\* transaction it sent or of the transaction delivered to it.
Processed(r) ==
  IF lastOp.r # r THEN {}
  ELSE IF lastOp.op = "deliver" THEN RecordsOf(txns[lastOp.id])
  ELSE IF lastOp.op \in {"accept", "decline", "removeComment"}
  THEN {a \in RecordsOf(txns[Len(txns)]) : a.dependentOn = lastOp.id}
  ELSE {}

IsAnnotationEvent(e) == e.ev \in {"AnnotationAdded", "AnnotationRemoved"}

\* C20: when a replica processes a Removal or an Update of an id whose
\* Addition its log does not hold, its view stays as it is and no
\* AnnotationAdded or AnnotationRemoved event is emitted.
C20_MissingDependencyDropped ==
  [][\A r \in Replicas :
       (/\ Processed(r)' # {}
        /\ \A a \in Processed(r)' :
             a.action # "addition" /\ ~HasAddition(r, a.dependentOn))
       => /\ annotationList'[r] = annotationList[r]
          /\ Count(emitted', IsAnnotationEvent) = 0]_vars

C20_Witness ==
  \E r \in Replicas :
    /\ lastOp.op = "deliver" /\ lastOp.r = r
    /\ \E a \in Processed(r) : a.action = "update" /\ ~HasAddition(r, a.dependentOn)
    /\ Active(r) # {}
    /\ \E id \in DOMAIN log[r] :
         LastAction(r, id) = "removal" /\ ~HasAddition(r, id)

(***************************************************************************)
(* addComment                                                              *)
(***************************************************************************)
\* The step is addComment(startIndex, endIndex, text) on replica r.
IsAddComment(r, startIndex, endIndex) ==
  /\ lastOp'.op = "addComment"
  /\ lastOp'.r = r
  /\ lastOp'.index = startIndex
  /\ lastOp'.count = endIndex

\* The step threw and left the log, the view and the text as they were.
Rejected ==
  /\ lastOp'.threw
  /\ log' = log
  /\ annotationList' = annotationList
  /\ present' = present
  /\ txns' = txns

\* The step appended exactly one Addition(AddComment) with both ends closed.
CommentAppended(r) ==
  /\ ~lastOp'.threw
  /\ Len(txns') = Len(txns) + 1
  /\ NumRecords(txns'[Len(txns')]) = 1
  /\ \A a \in RecordsOf(txns'[Len(txns')]) :
       /\ a.action = "addition" /\ a.description = "addComment"
       /\ a.startClosed /\ a.endClosed
       /\ a.startPosition # NULL /\ a.endPosition # NULL
       /\ History(r, a.id)' = <<a>>
  /\ \A id \in DOMAIN log[r] : log'[r][id] = log[r][id]
  /\ present' = present

\* C21 as claimed: addComment throws and changes nothing when startIndex < 0,
\* startIndex >= length, endIndex < 0, endIndex > length or
\* endIndex < startIndex, and appends exactly one closed Addition(AddComment)
\* for every other range.
C21_AddCommentValidates ==
  [][\A r \in Replicas : \A startIndex, endIndex \in -1..MaxPos :
       IsAddComment(r, startIndex, endIndex) =>
         IF \/ startIndex < 0 \/ startIndex >= Cardinality(present[r])
            \/ endIndex < 0 \/ endIndex > Cardinality(present[r])
            \/ endIndex < startIndex
         THEN Rejected
         ELSE CommentAppended(r)]_vars

\* C21 amended: endIndex is the index of the last covered character, so
\* endIndex = length is rejected as well: addComment throws and changes
\* nothing unless 0 <= startIndex <= endIndex < length, and appends exactly
\* one closed Addition(AddComment) from the character at startIndex to the
\* character at endIndex otherwise.
C21_AddCommentInclusiveEnd ==
  [][\A r \in Replicas : \A startIndex, endIndex \in -1..MaxPos :
       IsAddComment(r, startIndex, endIndex) =>
         IF \/ startIndex < 0
            \/ endIndex < startIndex
            \/ endIndex >= Cardinality(present[r])
         THEN Rejected
         ELSE /\ CommentAppended(r)
              /\ \A a \in RecordsOf(txns'[Len(txns')]) :
                   /\ a.startPosition =
                        GetPosition(order, present[r], startIndex)
                   /\ a.endPosition = GetPosition(order, present[r], endIndex)]_vars

\* A comment was added over more than one character.
C21_Witness ==
  /\ lastOp.op = "addComment"
  /\ ~lastOp.threw
  /\ lastOp.index < lastOp.count
  /\ \E a \in RecordsOf(txns[Len(txns)]) : a.description = "addComment"

(***************************************************************************)
(* Emitted events                                                          *)
(***************************************************************************)
\* text.slice(startIndex, endIndex) on replica r, as a set of positions.
Slice(r, startIndex, endIndex) ==
  {p \in present[r] :
     /\ startIndex <= Before(order, present[r], p)
     /\ Before(order, present[r], p) < endIndex}

\* The last step ran on replica r and left its text as it was, so every
\* event of the step was emitted over the present text.
TextKept(r) ==
  /\ lastOp.r = r
  /\ lastOp.before = present[r]
  /\ ~lastOp.threw

\* C22: for every AnnotationAdded and AnnotationRemoved event, the
\* characters that belong to the annotation at the time of the event are
\* exactly text.slice(startIndex, endIndex).
C22_EmittedRangeHalfOpen ==
  \A r \in Replicas :
    TextKept(r) =>
      \A i \in 1..Len(emitted) :
        IsAnnotationEvent(emitted[i]) =>
          {p \in present[r] : InRange(emitted[i].annotation, p)}
            = Slice(r, emitted[i].startIndex, emitted[i].endIndex)

\* The annotation an id stands for on replica r when the records in skip are
\* left out of its history.
EffectiveWithout(r, id, skip) ==
  applyUpdateOperations(
    Head(FindAddition(History(r, id), id)),
    SelectSeq(History(r, id), LAMBDA a : a.id \notin skip))

\* Replica r received a transaction whose only record is the Update u, and u
\* is not ignored: its Addition is held and no Removal sorts after it.
UpdateProcessed(r, u) ==
  /\ lastOp.op = "deliver"
  /\ Processed(r) = {u}
  /\ u.action = "update"
  /\ HasAddition(r, u.dependentOn)
  /\ LastAction(r, u.dependentOn) # "removal"

\* C23: processing an Update that is not ignored emits exactly one
\* AnnotationRemoved with reason Replaced carrying the effective annotation
\* without that Update, followed by exactly one AnnotationAdded carrying the
\* effective annotation with that Update.
C23_UpdateEventOrder ==
  \A r \in Replicas : \A u \in Processed(r) :
    UpdateProcessed(r, u) =>
      LET events == SelectSeq(emitted, IsAnnotationEvent)
      IN  /\ Len(events) = 2
          /\ events[1].ev = "AnnotationRemoved"
          /\ events[1].reason = "replaced"
          /\ events[1].annotation = EffectiveWithout(r, u.dependentOn, {u.id})
          /\ events[2].ev = "AnnotationAdded"
          /\ events[2].annotation = EffectiveWithout(r, u.dependentOn, {})

(***************************************************************************)
(* Comments and direct deletions                                           *)
(***************************************************************************)
\* The step is a direct deletion: delete(index, count, false) on a replica,
\* or the delivery of a transaction that only deletes text.
DirectDeletion ==
  \/ lastOp'.op = "delete" /\ ~lastOp'.isSuggestion
  \/ /\ lastOp'.op = "deliver"
     /\ \A t \in 1..Len(txns) :
          lastOp'.id = t =>
            \A k \in 1..Len(txns[t].msgs) : txns[t].msgs[k].kind = "delete"

\* The comments replica r holds, and those it holds a Removal of.
CommentsOf(r) ==
  {id \in DOMAIN log[r] :
     \E i \in 1..Len(log[r][id]) :
       log[r][id][i].action = "addition" /\ log[r][id][i].type = "comment"}

IsRemoved(r, id) ==
  \E i \in 1..Len(History(r, id)) : History(r, id)[i].action = "removal"

\* The present characters a comment covers.
CoveredBy(r, id) ==
  {p \in present[r] : InRange(Head(FindAddition(History(r, id), id)), p)}

\* C24: a direct deletion, local or remote, changes neither the annotation
\* log nor getActiveAnnotations(); a comment stays active, also when all its
\* characters have been deleted, until removeComment(id) is processed; after
\* that it is absent, and processing the removal leaves the text unchanged.
C24_AnnotationsOwnNoCharacters ==
  [][/\ DirectDeletion =>
          /\ log' = log
          /\ \A r \in Replicas : Active(r)' = Active(r)
     /\ \A r \in Replicas : \A id \in CommentsOf(r)' :
          IsRemoved(r, id)' <=> id \notin ActiveIds(r)'
     /\ \A r \in Replicas :
          (lastOp'.op = "removeComment" /\ lastOp'.r = r) =>
            present'[r] = present[r]]_vars

\* A comment whose characters had all been deleted was removed by
\* removeComment, and was active until then.
C24_Witness ==
  \E r \in Replicas :
    /\ lastOp.op = "removeComment" /\ lastOp.r = r
    /\ lastOp.id \in CommentsOf(r)
    /\ lastOp.live
    /\ lastOp.id \notin ActiveIds(r)
    /\ CoveredBy(r, lastOp.id) = {}

(***************************************************************************)
(* Saved states                                                            *)
(***************************************************************************)
\* Replica r loads once more the saved state it loaded in the last step.
LoadedAgain(r) ==
  loadCRDT(loadText(Begin(r, order), known[lastOp.id], present[lastOp.id]),
           lastOp.keys, saveCRDT(log[lastOp.id], lastOp.keys), lastOp.above)

\* C25: loading the same saved state a second time leaves the log as it was
\* after the first load and emits no Add event, so that no event is emitted
\* and the view and the active annotations are unchanged.
C25_LoadIdempotent ==
  \A r \in Replicas :
    (lastOp.op = "load" /\ lastOp.r = r) =>
      /\ LoadedAgain(r).log = log[r]
      /\ LoadedAgain(r).events = <<>>
      /\ LoadedAgain(r).al = annotationList[r]
      /\ getActiveAnnotations(order, LoadedAgain(r).al) = Active(r)
      /\ LoadedAgain(r).present = present[r]

\* The first load added records to a log that already held records, some of
\* them of a change id it already knew.
C25_Witness ==
  \E r \in Replicas :
    /\ lastOp.op = "load" /\ lastOp.r = r
    /\ ~lastOp.threw
    /\ emitted # <<>>
    /\ \E id \in DOMAIN log[r] :
         /\ Len(History(r, id)) >= 2
         /\ \E i \in 1..Len(History(r, id)) :
              History(r, id)[i].senderID \notin Replicas
         /\ \E i \in 1..Len(History(r, id)) :
              History(r, id)[i].senderID \in Replicas

(***************************************************************************)
(* wins                                                                    *)
(***************************************************************************)
\* C26: wins(a, b) holds iff a.lamport > b.lamport, or the lamports are equal
\* and a.senderID >= b.senderID; for two records with different
\* (lamport, senderID) pairs exactly one of wins(a, b) and wins(b, a) holds.
C26_WinsTotalOrder ==
  lastOp.op = "wins" =>
    LET a == RecordOf(lastOp.r)
        b == RecordOf(lastOp.id)
    IN  /\ lastOp.live <=> \/ a.lamport > b.lamport
                           \/ a.lamport = b.lamport /\ a.senderID >= b.senderID
        /\ <<a.lamport, a.senderID>> # <<b.lamport, b.senderID>>
             => (lastOp.live <=> ~wins(b, a))

\* Two records of the same lamport and different senders were compared, and
\* the first one won.
C26_Witness ==
  /\ lastOp.op = "wins"
  /\ lastOp.live
  /\ RecordOf(lastOp.r).lamport = RecordOf(lastOp.id).lamport
  /\ RecordOf(lastOp.r).senderID # RecordOf(lastOp.id).senderID

(***************************************************************************)
(* The log                                                                 *)
(***************************************************************************)
\* A history is sorted ascending by (lamport, senderID).
Sorted(history) ==
  \A i, j \in 1..Len(history) : i < j => ~SortsAfter(history[i], history[j])

\* Every record of old is in new, in the same order.
Extends(new, old) ==
  SelectSeq(new, LAMBDA a : \E i \in 1..Len(old) : old[i] = a) = old

\* C27: on every replica the records the log holds for each annotation id
\* are sorted ascending by (lamport, senderID), and no step removes or
\* rewrites a record the log already holds.
C27_OrderedHistory ==
  [][\A r \in Replicas : \A id \in DOMAIN log[r] :
       /\ id \in DOMAIN log'[r]
       /\ Extends(log'[r][id], log[r][id])
       /\ Sorted(log'[r][id])]_vars

\* A delivered record was filed before a record the log already held.
C27_Witness ==
  \E r \in Replicas :
    /\ lastOp.op = "deliver" /\ lastOp.r = r
    /\ \E a \in Processed(r) :
         /\ Len(History(r, ChangeId(a))) >= 3
         /\ History(r, ChangeId(a))[Len(History(r, ChangeId(a)))] # a

(***************************************************************************)
(* Data points                                                             *)
(***************************************************************************)
\* The entries of the data point of replica r at position q.
EntriesAt(r, q) ==
  {Flat(annotationList[r][q])[i] : i \in 1..Len(Flat(annotationList[r][q]))}

\* C28: for every entry of an annotation a stored in the data point at
\* position q, startingHere is true iff q is a's start position and
\* endingHere is true iff q is a's end position.
C28_DataPointFlags ==
  \A r \in Replicas : \A q \in DOMAIN annotationList[r] :
    \A e \in EntriesAt(r, q) :
      /\ e.startingHere <=> q = e.a.startPosition
      /\ e.endingHere <=> q = e.a.endPosition

(***************************************************************************)
(* Records that arrive before the Addition                                 *)
(***************************************************************************)
RECURSIVE receiveEach(_, _)
receiveEach(st, records) ==
  IF records = <<>> THEN st
  ELSE receiveEach(receiveCRDT(st, Head(records)), Tail(records))

\* Replica r as it would be had it received the Addition a before the
\* records it holds for a's id.
AdditionFirst(r, a) ==
  receiveEach([Begin(r, order) EXCEPT
                 !.log = [k \in DOMAIN log[r] \ {a.id} |-> log[r][k]]],
              <<a>> \o History(r, a.id))

\* Replica r holds Removals of a's id and nothing else for it, and the step
\* delivers the Addition a.
AdditionAfterRemoval(r, a) ==
  /\ lastOp'.op = "deliver"
  /\ a.action = "addition"
  /\ History(r, a.id) # <<>>
  /\ \A i \in 1..Len(History(r, a.id)) : History(r, a.id)[i].action = "removal"

\* C29: an Addition that arrives after its Removal is ignored: the view is
\* unchanged, no event is emitted, the annotation is not active, and the
\* replica has the log, the active annotations and the annotations at every
\* position of a replica that received the Addition first.  (That the
\* Removal itself changed nothing when it arrived is C20.)
C29_RemovalBeforeAddition ==
  [][\A r \in Replicas : \A a \in Processed(r)' :
       AdditionAfterRemoval(r, a) =>
         /\ annotationList'[r] = annotationList[r]
         /\ Count(emitted', IsAnnotationEvent) = 0
         /\ a.id \notin ActiveIds(r)'
         /\ AdditionFirst(r, a).log = log'[r]
         /\ getActiveAnnotations(order, AdditionFirst(r, a).al) = Active(r)'
         /\ \A p \in present[r] :
              Ids(getAnnotationsInternal(
                    [order |-> order, present |-> present[r],
                     al |-> AdditionFirst(r, a).al], p))
                = Ids(AnnotationsAt(r, p)')]_vars

\* Replica r received a transaction whose only record is the Update u, and
\* its history of u's annotation holds a Removal that sorts after u.
StaleUpdate(r, u) ==
  /\ lastOp'.op = "deliver"
  /\ Processed(r)' = {u}
  /\ u.action = "update"
  /\ \E i \in 1..Len(History(r, u.dependentOn)) :
       /\ History(r, u.dependentOn)[i].action = "removal"
       /\ SortsAfter(History(r, u.dependentOn)[i], u)

\* C30: an Update delivered for an annotation whose history contains a
\* Removal with a larger (lamport, sender) is ignored: the view is unchanged
\* and neither AnnotationRemoved nor AnnotationAdded is emitted.
C30_StaleUpdateIgnored ==
  [][\A r \in Replicas : \A u \in Processed(r)' :
       StaleUpdate(r, u) =>
         /\ annotationList'[r] = annotationList[r]
         /\ Count(emitted', IsAnnotationEvent) = 0]_vars

\* The Updates of id that replica r holds and that set the start (the end).
UpdatesOf(r, id, setsStart) ==
  {History(r, id)[i] : i \in
     {i \in 1..Len(History(r, id)) :
        /\ History(r, id)[i].action = "update"
        /\ History(r, id)[i].dependentOn = id
        /\ IF setsStart THEN History(r, id)[i].hasStart
                        ELSE History(r, id)[i].hasEnd}}

\* The Update of U with the greatest (lamport, sender).
Greatest(U) == CHOOSE u \in U : \A v \in U : v = u \/ SortsAfter(u, v)

\* The annotation objects stored in the data points of replica r.
Stored(r) ==
  LET all == AllEntries(ListOf(order, DOMAIN annotationList[r]), annotationList[r])
  IN  {all[i].a : i \in 1..Len(all)}

\* C31: the effective annotation of an id is its Addition with, for the
\* start and for the end, the value of the Update with the greatest
\* (lamport, sender) that sets it, whatever the order in which the Updates
\* were delivered; and every entry that the view of a replica stores for
\* the id has that shape.
C31_EffectiveOrderIndependent ==
  \A r \in Replicas : \A id \in DOMAIN log[r] :
    HasAddition(r, id) =>
      LET addition == Head(FindAddition(History(r, id), id))
          effective == Head(Effective(log[r], id))
          starts == UpdatesOf(r, id, TRUE)
          ends == UpdatesOf(r, id, FALSE)
      IN  /\ effective.startPosition =
               IF starts = {} THEN addition.startPosition
               ELSE Greatest(starts).startPosition
          /\ effective.endPosition =
               IF ends = {} THEN addition.endPosition
               ELSE Greatest(ends).endPosition
          /\ Shape(effective) =
               Shape([addition EXCEPT !.startPosition = effective.startPosition,
                                      !.endPosition = effective.endPosition])
          /\ \A a \in Stored(r) : a.id = id => Shape(a) = Shape(effective)

\* An Update was delivered to a replica that already held an Update of the
\* same annotation with a greater (lamport, sender) and another value for
\* the same endpoint, and the annotation is in the replica's view.
C31_Witness ==
  \E r \in Replicas :
    /\ lastOp.op = "deliver" /\ lastOp.r = r
    /\ \E u \in Processed(r) :
         /\ u.action = "update"
         /\ \E a \in Stored(r) : a.id = u.dependentOn
         /\ \E v \in UpdatesOf(r, u.dependentOn, FALSE) :
              /\ SortsAfter(v, u)
              /\ u.hasEnd
              /\ u.endPosition # v.endPosition

\* On replica r the history of id holds its Addition, a suggestion, and
\* ends in a Removal.
Terminated(r, id) ==
  /\ id \in DOMAIN log[r]
  /\ HasAddition(r, id)
  /\ Head(FindAddition(History(r, id), id)).type = "suggestion"
  /\ LastAction(r, id) = "removal"

\* C32: acceptSuggestion(id) or declineSuggestion(id) called for a
\* suggestion whose history already ends in a Removal leaves the text of
\* the calling replica unchanged; in particular a declineSuggestion after
\* an accepted InsertSuggestion deletes no character.
C32_TextEffectsOnce ==
  [][\A r \in Replicas :
       (/\ lastOp'.op \in {"accept", "decline"}
        /\ lastOp'.r = r
        /\ Terminated(r, lastOp'.id))
         => present'[r] = present[r]]_vars

\* Index is the left or the right edge of a in the text of replica r: the
\* index of the first character inside a's range, or the index after the
\* last one.
AtEdge(r, a, index) ==
  LET inside == {p \in present[r] : InRange(a, p)}
  IN  /\ inside # {}
      /\ \/ \E p \in inside :
              /\ \A q \in inside : Ord(order, p) <= Ord(order, q)
              /\ index = Before(order, present[r], p)
         \/ \E p \in inside :
              /\ \A q \in inside : Ord(order, q) <= Ord(order, p)
              /\ index = Before(order, present[r], p) + 1

\* C33: after insert(index, text, false) at the left or the right edge of a
\* live InsertSuggestion, no inserted character is inside the effective
\* range of the suggestion, and declineSuggestion of the suggestion would
\* delete none of them.
C33_DirectInsertOutside ==
  [][\A r \in Replicas : \A a \in Active(r) :
       (/\ lastOp'.op = "insert" /\ lastOp'.r = r
        /\ ~lastOp'.isSuggestion /\ ~lastOp'.threw
        /\ a.description = "insertSuggestion"
        /\ AtEdge(r, a, lastOp'.index))
         => \A q \in present'[r] \ present[r] :
              /\ ~InRange(Head(Effective(log[r], a.id)), q)'
              /\ q \in declineSuggestion(
                          [order |-> order', known |-> known'[r],
                           present |-> present'[r], log |-> log'[r],
                           al |-> annotationList'[r], events |-> <<>>,
                           msgs |-> <<>>, nid |-> nextId', threw |-> FALSE,
                           failed |-> FALSE, under |-> {}],
                          r, clock'[r] + 1, a.id).present]_vars

\* C34: when delete(index, count, true) appends an Update to a
\* DeleteSuggestion of the calling user, every character that the
\* suggestion's effective range covered before the call is covered by its
\* effective range after the call.
C34_DeleteSuggestionOnlyGrows ==
  [][\A r \in Replicas :
       (/\ lastOp'.op = "delete" /\ lastOp'.r = r
        /\ lastOp'.isSuggestion /\ ~lastOp'.threw
        /\ Len(txns') = Len(txns) + 1)
         => \A u \in RecordsOf(txns'[Len(txns')]) :
              u.action = "update" =>
                \A p \in present[r] :
                  InRange(Head(Effective(log[r], u.dependentOn)), p)
                    => InRange(Head(Effective(log'[r], u.dependentOn)), p)]_vars

\* C35: when a replica whose log is empty loads the saved state of another
\* replica, its log holds for every annotation id the records of the saving
\* replica in the same order, each with the same id, action, description,
\* lamport and senderID.
C35_SnapshotRoundTrip ==
  [][\A r \in Replicas :
       (lastOp'.op = "load" /\ lastOp'.r = r /\ log[r] = EmptyFn) =>
         /\ DOMAIN log'[r] = DOMAIN log[lastOp'.id]
         /\ \A id \in DOMAIN log[lastOp'.id] :
              /\ Len(log'[r][id]) = Len(log[lastOp'.id][id])
              /\ \A i \in 1..Len(log[lastOp'.id][id]) :
                   LET saved == log[lastOp'.id][id][i]
                       loaded == log'[r][id][i]
                   IN  /\ loaded.id = saved.id
                       /\ loaded.action = saved.action
                       /\ loaded.description = saved.description
                       /\ loaded.lamport = saved.lamport
                       /\ loaded.senderID = saved.senderID]_vars

\* C36: after a replica that holds records loads the saved state of another
\* replica, every record of the saved state is in its log (the same record
\* id under the same annotation id), also when the replica already held a
\* record of that annotation id with a higher lamport.
C36_LoadLosesNoRecord ==
  [][\A r \in Replicas :
       (lastOp'.op = "load" /\ lastOp'.r = r /\ log[r] # EmptyFn) =>
         \A id \in DOMAIN log[lastOp'.id] :
           /\ id \in DOMAIN log'[r]
           /\ \A i \in 1..Len(log[lastOp'.id][id]) :
                \E j \in 1..Len(log'[r][id]) :
                  log'[r][id][j].id = log[lastOp'.id][id][i].id]_vars

\* C37: no comment is removed with reason Accepted or Declined and no
\* suggestion with reason Removed; acceptSuggestion or declineSuggestion
\* called with the id of an active comment, and removeComment called with
\* the id of an active suggestion, leave the annotation active.
C37_RemovalKindSafety ==
  /\ \A i \in 1..Len(emitted) :
       emitted[i].ev = "AnnotationRemoved" =>
         /\ emitted[i].annotation.type = "comment"
              => emitted[i].reason \notin {"accepted", "declined"}
         /\ emitted[i].annotation.type = "suggestion"
              => emitted[i].reason # "removed"
  /\ \A r \in Replicas : \A id \in DOMAIN log[r] :
       (/\ lastOp.r = r /\ lastOp.id = id /\ lastOp.live
        /\ HasAddition(r, id)
        /\ \/ /\ lastOp.op \in {"accept", "decline"}
              /\ Head(FindAddition(History(r, id), id)).type = "comment"
           \/ /\ lastOp.op = "removeComment"
              /\ Head(FindAddition(History(r, id), id)).type = "suggestion")
         => id \in ActiveIds(r)

\* Position q is within the range of a: start <= q <= end, a null start
\* being the beginning and a null end the end of the document.
Within(a, q) ==
  /\ a.startPosition = NULL \/ Ord(order, a.startPosition) <= Ord(order, q)
  /\ a.endPosition = NULL \/ Ord(order, q) <= Ord(order, a.endPosition)

\* The entries for annotation id in the data point at q of replica r.
EntriesFor(r, q, id) ==
  {i \in 1..Len(Flat(annotationList[r][q])) : Flat(annotationList[r][q])[i].a.id = id}

\* C38: in every state, for every live annotation a and every data point q
\* of a replica, the data point holds an entry for a exactly when q is
\* within a's range; no data point holds two entries for one annotation
\* id; and after removeAnnotation(a) no data point holds an entry for a.
C38_PeritextCoverage ==
  \A r \in Replicas : \A q \in DOMAIN annotationList[r] :
    /\ \A a \in Active(r) : (EntriesFor(r, q, a.id) # {}) <=> Within(a, q)
    /\ \A id \in DOMAIN log[r] : Cardinality(EntriesFor(r, q, id)) <= 1
    /\ \A i \in 1..Len(emitted) :
         (/\ lastOp.r = r
          /\ emitted[i].ev = "AnnotationRemoved"
          /\ \A j \in (i + 1)..Len(emitted) :
               ~(/\ emitted[j].ev = "AnnotationAdded"
                 /\ emitted[j].annotation.id = emitted[i].annotation.id))
           => EntriesFor(r, q, emitted[i].annotation.id) = {}

====
